---------------------------- MODULE Spec2Model ----------------------------
(***************************************************************************)
(* Model of mofa_slack_bot.py: one run of main(), the pipeline             *)
(*   fetch -> now/threshold -> per-mail extract+filter -> format -> post.  *)
(*                                                                         *)
(* Representation of Python values                                         *)
(*   - a str read from the feed is a TLA+ string; "" is the empty str;     *)
(*   - None is the string NoneVal;                                         *)
(*   - a str built by an f-string is the sequence of its non-empty pieces  *)
(*     (Cat), <<>> being the empty str;                                    *)
(*   - a datetime is [s, us, tz]: wall-clock seconds since 1970-01-01      *)
(*     00:00:00, microseconds, and "JST" (aware) or "naive";               *)
(*   - Japanese literals of the source are written as ASCII glosses, the   *)
(*     original being quoted in the comment next to each.                  *)
(***************************************************************************)
EXTENDS Integers, Sequences, FiniteSets, TLC

VARIABLES
    SLACK_WEBHOOK_URL,  \* module global, line 268 (os.environ.get)
    ZoneInfo,           \* module global, lines 25-28: the class or None
    tzdata,             \* environment: can "Asia/Tokyo" be resolved
    feed_xml,           \* environment: <mail> elements published at the feed URL
    clock,              \* environment: UTC instant [s, us] the system clock reads
    pc,                 \* position of main()
    root,               \* main: root.findall(".//mail"), document order
    now_jst,            \* main: line 397
    threshold,          \* main: line 398
    idx,                \* main: position of the for loop of line 402 (1-based)
    target_mails,       \* main: line 400
    mails,              \* build_slack_text: the sorted list of line 315
    text,               \* main: line 457
    http,               \* requests issued so far: <<[method, outcome]>>
    stdout,             \* lines printed so far
    failure             \* exception that left main(), or NoneVal

vars == <<SLACK_WEBHOOK_URL, ZoneInfo, tzdata, feed_xml, clock, pc, root,
          now_jst, threshold, idx, target_mails, mails, text, http, stdout,
          failure>>

NoneVal == "<None>"

(***************************************************************************)
(* Bounds and input alphabets                                              *)
(***************************************************************************)
MaxFeed == 3            \* longest feed of the pipeline specification
MaxDateFeed == 2        \* longest feed of the date specification

\* line 265
WINDOW_MINUTES == 1440

\* ZoneInfo("Asia/Tokyo"): UTC+09:00, no daylight saving
JstOffsetSeconds == 32400

\* separators of a date-time string, as lexical tokens (digit runs are
\* tokens >= 0 carrying their value)
Slash == 0 - 1
Space == 0 - 2
Colon == 0 - 3
Dash == 0 - 4

(***************************************************************************)
(* Calendar arithmetic of datetime (proleptic Gregorian)                   *)
(***************************************************************************)
IsLeap(y) == (y % 4 = 0 /\ y % 100 # 0) \/ y % 400 = 0

DaysInMonth(y, m) ==
    IF m = 2 THEN (IF IsLeap(y) THEN 29 ELSE 28)
    ELSE IF m \in {4, 6, 9, 11} THEN 30 ELSE 31

\* days since 1970-01-01 of the civil date y-m-d
DaysFromCivil(y, m, d) ==
    LET yy  == IF m <= 2 THEN y - 1 ELSE y
        era == yy \div 400
        yoe == yy - era * 400
        mp  == (m + 9) % 12
        doy == (153 * mp + 2) \div 5 + d - 1
        doe == yoe * 365 + yoe \div 4 - yoe \div 100 + doy
    IN  era * 146097 + doe - 719468

\* civil date <<y, m, d>> of a day count since 1970-01-01
CivilFromDays(z0) ==
    LET z   == z0 + 719468
        era == z \div 146097
        doe == z - era * 146097
        yoe == (doe - doe \div 1460 + doe \div 36524 - doe \div 146096) \div 365
        doy == doe - (365 * yoe + yoe \div 4 - yoe \div 100)
        mp  == (5 * doy + 2) \div 153
        d   == doy - (153 * mp + 2) \div 5 + 1
        m   == IF mp < 10 THEN mp + 3 ELSE mp - 9
        y   == yoe + era * 400 + (IF m <= 2 THEN 1 ELSE 0)
    IN  <<y, m, d>>

\* datetime(y, m, d, H, M, S) as wall-clock seconds
WallSeconds(y, m, d, H, M, S) ==
    DaysFromCivil(y, m, d) * 86400 + H * 3600 + M * 60 + S

\* datetime - timedelta(minutes=n): microsecond and tzinfo are kept
MinusMinutes(dt, n) == [dt EXCEPT !.s = dt.s - n * 60]

\* datetime < datetime; comparing aware with naive raises TypeError
DtComparable(a, b) == a.tz = b.tz
DtLess(a, b) == a.s < b.s \/ (a.s = b.s /\ a.us < b.us)

\* dt.strftime("%Y/%m/%d %H:%M") as <<Y, m, d, H, M>>: seconds are dropped
StrftimeMinute(dt) ==
    LET c   == CivilFromDays(dt.s \div 86400)
        sod == dt.s % 86400
    IN  <<c[1], c[2], c[3], sod \div 3600, (sod % 3600) \div 60>>

(***************************************************************************)
(* parse_leave_date, lines 289-299                                         *)
(***************************************************************************)
\* the date-time strings the feeds of the model carry, and their tokens
LeaveDateTokens(str) ==
    CASE str = "2024/02/29 00:00:30" ->
             <<2024, Slash, 2, Slash, 29, Space, 0, Colon, 0, Colon, 30>>
      [] str = "2024/02/29 00:00:29" ->
             <<2024, Slash, 2, Slash, 29, Space, 0, Colon, 0, Colon, 29>>
      [] str = "2024/02/29 12:00:00" ->
             <<2024, Slash, 2, Slash, 29, Space, 12, Colon, 0, Colon, 0>>
      [] str = "2024/02/29 18:30:59" ->
             <<2024, Slash, 2, Slash, 29, Space, 18, Colon, 30, Colon, 59>>
      [] str = "2024/02/28 15:00:30" ->
             <<2024, Slash, 2, Slash, 28, Space, 15, Colon, 0, Colon, 30>>
      [] str = "2024/02/28 15:00:29" ->
             <<2024, Slash, 2, Slash, 28, Space, 15, Colon, 0, Colon, 29>>
      [] str = "2024/02/30 00:00:30" ->
             <<2024, Slash, 2, Slash, 30, Space, 0, Colon, 0, Colon, 30>>
      [] str = "2024/03/01 00:00:60" ->
             <<2024, Slash, 3, Slash, 1, Space, 0, Colon, 0, Colon, 60>>
      [] str = "2024-02-29 12:00:00" ->
             <<2024, Dash, 2, Dash, 29, Space, 12, Colon, 0, Colon, 0>>
      [] str = "2024/02/29 12:00" ->
             <<2024, Slash, 2, Slash, 29, Space, 12, Colon, 0>>
      [] str = "" -> <<>>

\* None where a datetime is expected (leave_dt of a record that did not parse)
NoneDt == [s |-> 0, us |-> 0, tz |-> NoneVal]

\* datetime.strptime(str, "%Y/%m/%d %H:%M:%S"): the naive datetime, or
\* NoneDt for the ValueError it raises.  The format's regular expression
\* accepts month 1-12, day 1-31, hour 0-23, minute 0-59, second 0-61 and
\* nothing after the seconds; the datetime constructor then rejects year 0,
\* a day past the end of the month and second 60 or 61.
Strptime(str) ==
    LET t == LeaveDateTokens(str)
        matches ==
            /\ Len(t) = 11
            /\ t[2] = Slash /\ t[4] = Slash /\ t[6] = Space
            /\ t[8] = Colon /\ t[10] = Colon
            /\ \A i \in {1, 3, 5, 7, 9, 11} : t[i] >= 0
            /\ t[1] <= 9999
            /\ t[3] \in 1..12 /\ t[5] \in 1..31
            /\ t[7] \in 0..23 /\ t[9] \in 0..59 /\ t[11] \in 0..61
        constructs ==
            /\ t[1] >= 1
            /\ t[5] <= DaysInMonth(t[1], t[3])
            /\ t[11] <= 59
    IN  IF matches /\ constructs
        THEN [s  |-> WallSeconds(t[1], t[3], t[5], t[7], t[9], t[11]),
              us |-> 0, tz |-> "naive"]
        ELSE NoneDt

\* parse_leave_date with the try/except of lines 293-299 removed: the
\* ValueError of strptime and the ZoneInfoNotFoundError reach the caller
parse_leave_date_unguarded(leave_date_str) ==
    IF leave_date_str = "" THEN [raised |-> NoneVal, value |-> NoneDt]
    ELSE LET dt == Strptime(leave_date_str)
         IN  IF dt = NoneDt THEN [raised |-> "ValueError", value |-> NoneDt]
             ELSE IF ZoneInfo = NoneVal THEN [raised |-> NoneVal, value |-> dt]
             ELSE IF ~tzdata
                  THEN [raised |-> "ZoneInfoNotFoundError", value |-> NoneDt]
             ELSE [raised |-> NoneVal, value |-> [dt EXCEPT !.tz = "JST"]]

\* Result of parse_leave_date: [raised, value]; raised is the exception that
\* reaches the caller (NoneVal when it returns), value a datetime or NoneDt.
\* Inside the try, strptime may raise ValueError and ZoneInfo("Asia/Tokyo")
\* may raise ZoneInfoNotFoundError; `except Exception` turns both into None.
parse_leave_date(leave_date_str) ==
    IF leave_date_str = "" THEN [raised |-> NoneVal, value |-> NoneDt]
    ELSE LET dt == Strptime(leave_date_str)
         IN  IF dt = NoneDt THEN [raised |-> NoneVal, value |-> NoneDt]
             ELSE IF ZoneInfo = NoneVal THEN [raised |-> NoneVal, value |-> dt]
             ELSE IF ~tzdata THEN [raised |-> NoneVal, value |-> NoneDt]
             ELSE [raised |-> NoneVal, value |-> [dt EXCEPT !.tz = "JST"]]

\* get_now_jst, lines 271-277: [raised, value].  With ZoneInfo the aware
\* JST wall clock; without it datetime.utcnow(), naive.
get_now_jst ==
    IF ZoneInfo # NoneVal
    THEN IF tzdata
         THEN [raised |-> NoneVal,
               value  |-> [s |-> clock.s + JstOffsetSeconds, us |-> clock.us,
                           tz |-> "JST"]]
         ELSE [raised |-> "ZoneInfoNotFoundError", value |-> NoneDt]
    ELSE [raised |-> NoneVal,
          value  |-> [s |-> clock.s, us |-> clock.us, tz |-> "naive"]]

(***************************************************************************)
(* Static tables                                                           *)
(***************************************************************************)
\* COUNTRY_CODE_MAP, lines 34-248 (excerpt: the other entries behave alike)
COUNTRY_CODE_MAP ==
    [c \in {"0060", "0086", "9212"} |->
        CASE c = "0060" -> "Malaysia"            \* マレーシア
          [] c = "0086" -> "PRC / China"         \* 中華人民共和国／中国
          [] c = "9212" -> "Western Sahara"]     \* 西サハラ

\* INFO_TYPE_MAP, lines 251-260
INFO_TYPE_MAP ==
    [c \in {"T40", "T81", "C30", "C31", "C50", "C51", "R10", "R20"} |->
        CASE c = "T40" -> "danger information"              \* 危険情報
          [] c = "T81" -> "infection danger information"    \* 感染症危険情報
          [] c = "C30" -> "spot information"                \* スポット情報
          [] c = "C31" -> "spot information (infection)"    \* スポット情報(感染症)
          [] c = "C50" -> "wide-area information"           \* 広域情報
          [] c = "C51" -> "wide-area information (infection)" \* 広域情報(感染症)
          [] c = "R10" -> "consular mail (general)"         \* 領事メール(一般)
          [] c = "R20" -> "consular mail (urgent)"]         \* 領事メール(緊急)

\* dict.get(key): the value, or None
DictGet(d, key) == IF key \in DOMAIN d THEN d[key] ELSE NoneVal

\* truth value of a str-or-None
Truthy(x) == x # NoneVal /\ x # ""

\* x or y, on str-or-None
Or(x, y) == IF Truthy(x) THEN x ELSE y

\* mail.findtext(tag, default=""): the text of the child element, "" when
\* the element is absent (an empty element has the text "" as well)
FindText(mail, tag) == IF tag \in DOMAIN mail THEN mail[tag] ELSE ""

\* f"riskLevel{lv}" and f"infectionLevel{lv}"
RiskTag(lv) ==
    CASE lv = 1 -> "riskLevel1" [] lv = 2 -> "riskLevel2"
      [] lv = 3 -> "riskLevel3" [] lv = 4 -> "riskLevel4"
InfectionTag(lv) ==
    CASE lv = 1 -> "infectionLevel1" [] lv = 2 -> "infectionLevel2"
      [] lv = 3 -> "infectionLevel3" [] lv = 4 -> "infectionLevel4"

\* f"L{lv}"
LevelLabel(lv) ==
    CASE lv = 1 -> "L1" [] lv = 2 -> "L2" [] lv = 3 -> "L3" [] lv = 4 -> "L4"

(***************************************************************************)
(* build_slack_text, lines 302-376                                         *)
(***************************************************************************)
\* concatenation of str pieces (an f-string): empty pieces leave no trace
Cat(pieces) == SelectSeq(pieces, LAMBDA p : p # "")

\* sep.join(parts), parts a sequence of built strs
RECURSIVE JoinSeq(_, _)
JoinSeq(sep, parts) ==
    IF parts = <<>> THEN <<>>
    ELSE IF Len(parts) = 1 THEN parts[1]
    ELSE parts[1] \o <<sep>> \o JoinSeq(sep, Tail(parts))

\* insertion of m in front of the elements whose key is not smaller: equal
\* keys come out in reverse feed order
RECURSIVE InsertByLeaveDt_unstable(_, _)
InsertByLeaveDt_unstable(sorted, m) ==
    IF sorted = <<>> THEN <<m>>
    ELSE IF ~DtLess(sorted[1].leave_dt, m.leave_dt) THEN <<m>> \o sorted
    ELSE <<sorted[1]>> \o InsertByLeaveDt_unstable(Tail(sorted), m)

\* insertion of m behind every element whose key is not greater
RECURSIVE InsertByLeaveDt(_, _)
InsertByLeaveDt(sorted, m) ==
    IF sorted = <<>> THEN <<m>>
    ELSE IF DtLess(m.leave_dt, sorted[1].leave_dt) THEN <<m>> \o sorted
    ELSE <<sorted[1]>> \o InsertByLeaveDt(Tail(sorted), m)

\* sorted(mails, key=lambda m: m["leave_dt"]), line 315: ascending, stable
RECURSIVE SortedByLeaveDt(_)
SortedByLeaveDt(ms) ==
    IF ms = <<>> THEN <<>>
    ELSE InsertByLeaveDt(SortedByLeaveDt(SubSeq(ms, 1, Len(ms) - 1)),
                         ms[Len(ms)])

\* the country part with the feed's name taking precedence over the table
first_line_country_feedfirst(m) ==
    LET code == Or(m.country_cd, "")
        country_name_from_map == DictGet(COUNTRY_CODE_MAP, code)
        base_country_label ==
            IF Truthy(code)
            THEN <<"country code: ", code>>
            ELSE <<Or(m.country_name, "country unknown")>>
        paren_country == Or(Or(m.country_name, country_name_from_map), "")
    IN  IF Truthy(paren_country)
        THEN <<"*">> \o base_country_label \o <<"*", "(", paren_country, ")">>
        ELSE <<"*">> \o base_country_label \o <<"*">>

\* lines 318-330: the country part of the first line
first_line_country(m) ==
    LET code == Or(m.country_cd, "")
        country_name_from_map == DictGet(COUNTRY_CODE_MAP, code)
        base_country_label ==
            IF Truthy(code)
            THEN <<"country code: ", code>>               \* 国コード: {code}
            ELSE <<Or(m.country_name, "country unknown")>> \* 国不明
        paren_country == Or(Or(country_name_from_map, m.country_name), "")
    IN  IF Truthy(paren_country)
        THEN <<"*">> \o base_country_label \o <<"*", "(", paren_country, ")">>
        ELSE <<"*">> \o base_country_label \o <<"*">>

\* the type label with the short name tried before the long name
type_text_shortfirst(m) ==
    LET info_type_code == m.info_type
        info_type_label == DictGet(INFO_TYPE_MAP, info_type_code)
    IN  IF Truthy(info_type_label)
        THEN Cat(<<info_type_code, "(", info_type_label, ")">>)
        ELSE LET fallback == Or(Or(m.info_name, m.info_name_long),
                                info_type_code)
             IN  Cat(<<info_type_code, "(", fallback, ")">>)

\* lines 335-343: type code and its label
type_text(m) ==
    LET info_type_code == m.info_type
        info_type_label == DictGet(INFO_TYPE_MAP, info_type_code)
    IN  IF Truthy(info_type_label)
        THEN Cat(<<info_type_code, "(", info_type_label, ")">>)
        ELSE LET fallback == Or(Or(m.info_name_long, m.info_name),
                                info_type_code)
             IN  Cat(<<info_type_code, "(", fallback, ")">>)

\* lines 345-347: the issuing-office line
koukan(m) ==
    IF Truthy(m.koukan_name)
    THEN Cat(<<"  issuing office: ", m.koukan_name, "(", m.koukan_cd, ")",
               "\n">>)                                   \* 発出公館
    ELSE <<>>

\* the flagged tiers listed from 1 up to 4
lv_str_ascending(flags) ==
    LET flagged == SelectSeq(<<1, 2, 3, 4>>, LAMBDA lv : flags[lv] = "Y")
    IN  JoinSeq(" / ", [i \in 1..Len(flagged) |-> <<LevelLabel(flagged[i])>>])

\* " / ".join(f"L{lv}" for lv in (4, 3, 2, 1) if flags[lv] == "Y")
lv_str(flags) ==
    LET flagged == SelectSeq(<<4, 3, 2, 1>>, LAMBDA lv : flags[lv] = "Y")
    IN  JoinSeq(" / ", [i \in 1..Len(flagged) |-> <<LevelLabel(flagged[i])>>])

\* lines 349-363: the severity line
level_text(m) ==
    LET risk_part ==
            IF \E lv \in 1..4 : m.risk_level[lv] = "Y"
            THEN <<(<<"risk level: ">> \o lv_str(m.risk_level))>>
                                                         \* 危険情報レベル
            ELSE <<>>
        infection_part ==
            IF \E lv \in 1..4 : m.infection_level[lv] = "Y"
            THEN <<(<<"infection risk level: ">> \o lv_str(m.infection_level))>>
                                                         \* 感染症危険レベル
            ELSE <<>>
        level_parts == risk_part \o infection_part
    IN  IF level_parts # <<>>
        THEN <<"  ">> \o JoinSeq(" / ", level_parts) \o <<"\n">>
        ELSE <<>>

\* lines 332-333 and 365-373: the block of one record
Block(m) ==
    [kind               |-> "block",
     first_line_country |-> first_line_country(m),
     area               |-> Or(m.area_name, ""),
     type_text          |-> type_text(m),
     ld_str             |-> IF m.leave_dt # NoneDt
                            THEN StrftimeMinute(m.leave_dt)
                            ELSE m.leave_date,
     koukan             |-> koukan(m),
     level_text         |-> level_text(m),
     title              |-> m.title,
     info_url           |-> m.info_url]

\* lines 307-312: the three header lines
HeaderLines ==
    <<[kind |-> "title"],                 \* *【外務省 海外安全情報オープンデータ 新着】*
      [kind |-> "fetched_at", at |-> StrftimeMinute(get_now_jst.value)],
      [kind |-> "blank"]>>

\* "\n".join(lines), line 376: a newline between consecutive entries
RECURSIVE JoinLines(_)
JoinLines(lines) ==
    IF Len(lines) <= 1 THEN lines
    ELSE <<lines[1], [kind |-> "newline"]>> \o JoinLines(Tail(lines))

\* the blocks of a text, in order
Blocks(t) == SelectSeq(t, LAMBDA l : l.kind = "block")

\* build_slack_text: the text, <<>> standing for the None of line 305
build_slack_text(ms) ==
    IF ms = <<>> THEN <<>>
    ELSE LET sorted == SortedByLeaveDt(ms)
         IN  JoinLines(HeaderLines \o [i \in 1..Len(sorted) |-> Block(sorted[i])])

(***************************************************************************)
(* fetch_mofa_newarrival, lines 280-286, and post_to_slack, lines 380-392  *)
(***************************************************************************)
\* what an HTTP exchange can come to: no response at all (connection error
\* or the 10 s timeout), or a response with a status
Transports == {"ok", "ConnectionError", "Timeout"}
Statuses == {200, 404, 503}

\* resp.raise_for_status(): HTTPError for 4xx and 5xx
RaisesForStatus(status) == status >= 400

\* the fetch without resp.raise_for_status(): an error page is parsed
fetch_mofa_newarrival_nostatus(transport, status, well_formed) ==
    IF transport # "ok" THEN [raised |-> transport, value |-> <<>>]
    ELSE IF ~well_formed THEN [raised |-> "ParseError", value |-> <<>>]
    ELSE [raised |-> NoneVal, value |-> feed_xml]

\* [raised, value]: the <mail> elements of the document, or the exception
fetch_mofa_newarrival(transport, status, well_formed) ==
    IF transport # "ok" THEN [raised |-> transport, value |-> <<>>]
    ELSE IF RaisesForStatus(status) THEN [raised |-> "HTTPError", value |-> <<>>]
    ELSE IF ~well_formed THEN [raised |-> "ParseError", value |-> <<>>]
    ELSE [raised |-> NoneVal, value |-> feed_xml]

\* the endpoint check as `is None`: an empty URL is posted to
post_to_slack_noneonly(transport, status) ==
    IF SLACK_WEBHOOK_URL = NoneVal
    THEN [raised |-> "RuntimeError", posted |-> FALSE]
    ELSE IF transport # "ok" THEN [raised |-> transport, posted |-> TRUE]
    ELSE IF RaisesForStatus(status) THEN [raised |-> "HTTPError", posted |-> TRUE]
    ELSE [raised |-> NoneVal, posted |-> TRUE]

\* the delivery without resp.raise_for_status(): any response counts as sent
post_to_slack_nocheck(transport, status) ==
    IF ~Truthy(SLACK_WEBHOOK_URL)
    THEN [raised |-> "RuntimeError", posted |-> FALSE]
    ELSE IF transport # "ok" THEN [raised |-> transport, posted |-> TRUE]
    ELSE [raised |-> NoneVal, posted |-> TRUE]

\* [raised, posted]: posted tells whether requests.post was called
post_to_slack(transport, status) ==
    IF ~Truthy(SLACK_WEBHOOK_URL)
    THEN [raised |-> "RuntimeError", posted |-> FALSE]
    ELSE IF transport # "ok" THEN [raised |-> transport, posted |-> TRUE]
    ELSE IF RaisesForStatus(status) THEN [raised |-> "HTTPError", posted |-> TRUE]
    ELSE [raised |-> NoneVal, posted |-> TRUE]

(***************************************************************************)
(* main, lines 395-460                                                     *)
(***************************************************************************)
\* lines 403-449: the dict built for one <mail>
Obj(mail, leave_dt) ==
    [info_type       |-> FindText(mail, "infoType"),
     info_name       |-> FindText(mail, "infoName"),
     info_name_long  |-> FindText(mail, "infoNameLong"),
     leave_date      |-> FindText(mail, "leaveDate"),
     leave_dt        |-> leave_dt,
     country_name    |-> FindText(mail, "country/name"),
     country_cd      |-> FindText(mail, "country/cd"),
     area_name       |-> FindText(mail, "area/name"),
     title           |-> FindText(mail, "title"),
     info_url        |-> FindText(mail, "infoUrl"),
     koukan_cd       |-> FindText(mail, "koukanCd"),
     koukan_name     |-> FindText(mail, "koukanName"),
     risk_level      |-> [lv \in 1..4 |-> FindText(mail, RiskTag(lv))],
     infection_level |-> [lv \in 1..4 |-> FindText(mail, InfectionTag(lv))]]

\* the skip test without the staleness half
WindowSkip_noneonly(leave_dt, thr) == leave_dt = NoneDt

\* the skip test with an exclusive boundary (leave_dt <= threshold)
WindowSkip_exclusive(leave_dt, thr) == leave_dt = NoneDt \/ ~DtLess(thr, leave_dt)

\* line 410: the record is skipped
WindowSkip(leave_dt, thr) == leave_dt = NoneDt \/ DtLess(leave_dt, thr)

Abort(exc) ==
    /\ pc' = "failed"
    /\ failure' = exc

\* line 396
Fetch ==
    /\ pc = "fetch"
    /\ \E transport \in Transports, status \in Statuses, well_formed \in BOOLEAN :
         LET r == fetch_mofa_newarrival(transport, status, well_formed)
         IN  /\ http' = Append(http, [method |-> "GET", transport |-> transport,
                                      status |-> IF transport = "ok" THEN status ELSE 0])
             /\ IF r.raised # NoneVal
                THEN Abort(r.raised) /\ root' = root
                ELSE pc' = "now" /\ root' = r.value /\ failure' = failure
    /\ UNCHANGED <<SLACK_WEBHOOK_URL, ZoneInfo, tzdata, feed_xml, clock,
                   now_jst, threshold, idx, target_mails, mails, text, stdout>>

\* lines 397-400
Now ==
    /\ pc = "now"
    /\ LET r == get_now_jst
       IN  IF r.raised # NoneVal
           THEN /\ Abort(r.raised)
                /\ UNCHANGED <<now_jst, threshold, idx, target_mails>>
           ELSE /\ now_jst' = r.value
                /\ threshold' = MinusMinutes(r.value, WINDOW_MINUTES)
                /\ target_mails' = <<>>
                /\ idx' = 1
                /\ pc' = "loop"
                /\ failure' = failure
    /\ UNCHANGED <<SLACK_WEBHOOK_URL, ZoneInfo, tzdata, feed_xml, clock, root,
                   mails, text, http, stdout>>

\* lines 402-451: one iteration of the for loop
LoopMail ==
    /\ pc = "loop"
    /\ idx <= Len(root)
    /\ LET mail == root[idx]
           r == parse_leave_date(FindText(mail, "leaveDate"))
       IN  IF r.raised # NoneVal
           THEN Abort(r.raised) /\ UNCHANGED <<idx, target_mails>>
           ELSE IF r.value # NoneDt /\ ~DtComparable(r.value, threshold)
           THEN Abort("TypeError") /\ UNCHANGED <<idx, target_mails>>
           ELSE /\ target_mails' = IF WindowSkip(r.value, threshold)
                                   THEN target_mails
                                   ELSE Append(target_mails, Obj(mail, r.value))
                /\ idx' = idx + 1
                /\ UNCHANGED <<pc, failure>>
    /\ UNCHANGED <<SLACK_WEBHOOK_URL, ZoneInfo, tzdata, feed_xml, clock, root,
                   now_jst, threshold, mails, text, http, stdout>>

\* lines 453-455
NoNewItems ==
    /\ pc = "loop"
    /\ idx > Len(root)
    /\ target_mails = <<>>
    /\ stdout' = Append(stdout, [msg |-> "no new items", count |-> 0])
    /\ pc' = "done"
    /\ UNCHANGED <<SLACK_WEBHOOK_URL, ZoneInfo, tzdata, feed_xml, clock, root,
                   now_jst, threshold, idx, target_mails, mails, text, http,
                   failure>>

\* line 457
BuildText ==
    /\ pc = "loop"
    /\ idx > Len(root)
    /\ target_mails # <<>>
    /\ mails' = SortedByLeaveDt(target_mails)
    /\ text' = build_slack_text(target_mails)
    /\ pc' = "post"
    /\ UNCHANGED <<SLACK_WEBHOOK_URL, ZoneInfo, tzdata, feed_xml, clock, root,
                   now_jst, threshold, idx, target_mails, http, stdout, failure>>

\* lines 458-459
PostToSlack ==
    /\ pc = "post"
    /\ IF text = <<>>
       THEN pc' = "done" /\ UNCHANGED <<http, failure>>
       ELSE \E transport \in Transports, status \in Statuses :
              LET r == post_to_slack(transport, status)
              IN  /\ http' = IF r.posted
                             THEN Append(http, [method |-> "POST",
                                                transport |-> transport,
                                                status |-> IF transport = "ok"
                                                           THEN status ELSE 0])
                             ELSE http
                  /\ IF r.raised # NoneVal
                     THEN Abort(r.raised)
                     ELSE pc' = "posted" /\ failure' = failure
    /\ UNCHANGED <<SLACK_WEBHOOK_URL, ZoneInfo, tzdata, feed_xml, clock, root,
                   now_jst, threshold, idx, target_mails, mails, text, stdout>>

\* line 460
PrintSent ==
    /\ pc = "posted"
    /\ stdout' = Append(stdout, [msg |-> "sent", count |-> Len(target_mails)])
    /\ pc' = "done"
    /\ UNCHANGED <<SLACK_WEBHOOK_URL, ZoneInfo, tzdata, feed_xml, clock, root,
                   now_jst, threshold, idx, target_mails, mails, text, http,
                   failure>>

Next ==
    \/ Fetch
    \/ Now
    \/ LoopMail
    \/ NoNewItems
    \/ BuildText
    \/ PostToSlack
    \/ PrintSent

(***************************************************************************)
(* Inputs and specifications                                               *)
(***************************************************************************)
\* os.environ.get("SLACK_WEBHOOK_URL"): unset, set to "", or set
Webhooks == {NoneVal, "", "https://hooks.slack.example/services/T"}

\* the instant 2024-02-29 15:00:30 UTC (2024-03-01 00:00:30 JST), on a whole
\* second and a quarter of a second past it
Clocks == {[s |-> 1709218830, us |-> us] : us \in {0, 250000}}

\* a <mail> element with a type, a publish date and a title
DateMail(d, t) == [infoType |-> "T40", leaveDate |-> d, title |-> t]

\* a <mail> element without <leaveDate>
UndatedMail == [infoType |-> "T40", title |-> "a"]

\* the <mail> elements of the pipeline specification: on the JST threshold,
\* one second before it, inside the window (two of them with the same date),
\* and without a date
PipelineMails ==
    {DateMail(d, "a") : d \in {"2024/02/29 00:00:30", "2024/02/29 00:00:29",
                               "2024/02/29 12:00:00", "2024/02/29 18:30:59"}}
    \cup {DateMail("2024/02/29 12:00:00", "b"), UndatedMail}

\* the <mail> elements of the date specification: every date string of
\* LeaveDateTokens (the thresholds of a run with and without ZoneInfo, one
\* second before each, malformed and impossible dates), and no date
DateStrings ==
    {"2024/02/29 00:00:30", "2024/02/29 00:00:29", "2024/02/29 12:00:00",
     "2024/02/29 18:30:59", "2024/02/28 15:00:30", "2024/02/28 15:00:29",
     "2024/02/30 00:00:30", "2024/03/01 00:00:60", "2024-02-29 12:00:00",
     "2024/02/29 12:00", ""}
DateSpecMails ==
    {DateMail(d, "a") : d \in DateStrings}
    \cup {DateMail("2024/02/30 00:00:30", "b"), UndatedMail}

\* a <mail> inside the window with the given country, type and flags
FormatMail(cd, cname, ty, long, short, risk, inf) ==
    [infoType |-> ty, infoName |-> short, infoNameLong |-> long,
     leaveDate |-> "2024/02/29 12:00:00", title |-> "a",
     infoUrl |-> "https://www.anzen.mofa.go.jp/x",
     riskLevel1 |-> risk[1], riskLevel2 |-> risk[2],
     riskLevel3 |-> risk[3], riskLevel4 |-> risk[4],
     infectionLevel1 |-> inf[1], infectionLevel2 |-> inf[2],
     infectionLevel3 |-> inf[3], infectionLevel4 |-> inf[4]]
    @@ ("country/cd" :> cd) @@ ("country/name" :> cname)
    @@ ("area/name" :> "Asia")

FlagValues == {"Y", "N", ""}
NoFlags == [lv \in 1..4 |-> "N"]

\* the <mail> elements of the format specification: every country code and
\* name, every type code and names, every assignment of the eight flags
CountryMails ==
    {FormatMail(cd, cname, "T40", "", "", NoFlags, NoFlags) :
        cd \in {"0086", "9999", ""}, cname \in {"China", "Atlantis", ""}}
TypeMails ==
    {FormatMail("0086", "China", ty, long, short, NoFlags, NoFlags) :
        ty \in {"T40", "R20", "Z99", ""}, long \in {"long name", ""},
        short \in {"short name", ""}}
SeverityMails ==
    {FormatMail("0086", "China", "T40", "", "", risk, inf) :
        risk \in [1..4 -> FlagValues], inf \in [1..4 -> FlagValues]}
FormatMails == CountryMails \cup TypeMails \cup SeverityMails

\* all sequences over S of length at most n
SeqsUpTo(S, n) == UNION {[1..k -> S] : k \in 0..n}

PipelineFeeds == SeqsUpTo(PipelineMails, MaxFeed)
DateFeeds == SeqsUpTo(DateSpecMails, MaxDateFeed)
FormatFeeds == {<<>>} \cup {<<m>> : m \in FormatMails}

InitWith(feeds, clocks, webhooks) ==
    /\ SLACK_WEBHOOK_URL \in webhooks
    /\ ZoneInfo \in {"ZoneInfo", NoneVal}
    /\ tzdata \in IF ZoneInfo = NoneVal THEN {FALSE} ELSE BOOLEAN
    /\ feed_xml \in feeds
    /\ clock \in clocks
    /\ pc = "fetch"
    /\ root = <<>>
    /\ now_jst = NoneDt
    /\ threshold = NoneDt
    /\ idx = 1
    /\ target_mails = <<>>
    /\ mails = <<>>
    /\ text = <<>>
    /\ http = <<>>
    /\ stdout = <<>>
    /\ failure = NoneVal

\* the pipeline on feeds of up to MaxFeed records
Init == InitWith(PipelineFeeds, Clocks, Webhooks)
Spec == Init /\ [][Next]_vars

\* the pipeline on feeds of up to MaxDateFeed records over every date string
InitDates == InitWith(DateFeeds, Clocks, {"https://hooks.slack.example/services/T", ""})
SpecDates == InitDates /\ [][Next]_vars

\* the pipeline on one-record feeds over every country, type and flags
InitFormat ==
    InitWith(FormatFeeds, {[s |-> 1709218830, us |-> 0]},
             {"https://hooks.slack.example/services/T", NoneVal})
SpecFormat == InitFormat /\ [][Next]_vars

(***************************************************************************)
(* Expected values, written out by hand for the inputs above               *)
(***************************************************************************)
\* publish time of each well-formed date string, in seconds after
\* 2024-02-28 00:00:00; the other strings of the feeds have no publish time
PublishedAt ==
    [d \in {"2024/02/28 15:00:29", "2024/02/28 15:00:30", "2024/02/29 00:00:29",
            "2024/02/29 00:00:30", "2024/02/29 12:00:00", "2024/02/29 18:30:59"} |->
        CASE d = "2024/02/28 15:00:29" -> 15 * 3600 + 29
          [] d = "2024/02/28 15:00:30" -> 15 * 3600 + 30
          [] d = "2024/02/29 00:00:29" -> 86400 + 29
          [] d = "2024/02/29 00:00:30" -> 86400 + 30
          [] d = "2024/02/29 12:00:00" -> 86400 + 12 * 3600
          [] d = "2024/02/29 18:30:59" -> 86400 + 18 * 3600 + 30 * 60 + 59]

\* the same publish times as they are printed, <<Y, m, d, H, M>>
PublishedMinute ==
    [d \in DOMAIN PublishedAt |->
        CASE d = "2024/02/28 15:00:29" -> <<2024, 2, 28, 15, 0>>
          [] d = "2024/02/28 15:00:30" -> <<2024, 2, 28, 15, 0>>
          [] d = "2024/02/29 00:00:29" -> <<2024, 2, 29, 0, 0>>
          [] d = "2024/02/29 00:00:30" -> <<2024, 2, 29, 0, 0>>
          [] d = "2024/02/29 12:00:00" -> <<2024, 2, 29, 12, 0>>
          [] d = "2024/02/29 18:30:59" -> <<2024, 2, 29, 18, 30>>]

\* 2024-02-28 00:00:00 is day 19781 after 1970-01-01
RefEpoch == 19781 * 86400

\* the reference time of the run in seconds after 2024-02-28 00:00:00:
\* 2024-03-01 00:00:30 on the JST wall clock, 2024-02-29 15:00:30 on the UTC
\* one a run without ZoneInfo reads
NowRel == IF ZoneInfo # NoneVal THEN 2 * 86400 + 30 ELSE 86400 + 15 * 3600 + 30

\* the record has a publish time and publishedAt >= now - window
InWindow(mail) ==
    /\ "leaveDate" \in DOMAIN mail
    /\ mail.leaveDate \in DOMAIN PublishedAt
    /\ LET at  == PublishedAt[mail.leaveDate]
           thr == NowRel - WINDOW_MINUTES * 60
       IN  at > thr \/ (at = thr /\ clock.us = 0)

\* the filter has run on the records before idx
FilterStarted == now_jst # NoneDt
Processed == SubSeq(root, 1, idx - 1)

\* <<publish date string, title>> of the records of a list, in order
KeptKeys(ms) == [i \in 1..Len(ms) |-> <<ms[i].leave_date, ms[i].title>>]
FeedKeys(ms) ==
    [i \in 1..Len(ms) |-> <<FindText(ms[i], "leaveDate"), FindText(ms[i], "title")>>]

PostsIssued == {i \in 1..Len(http) : http[i].method = "POST"}
Succeeded(h) == h.transport = "ok" /\ h.status \in 200..299
NoNewLine == [msg |-> "no new items", count |-> 0]
SentLines == {k \in 1..Len(stdout) : stdout[k].msg = "sent"}

(***************************************************************************)
(* Claims                                                                  *)
(***************************************************************************)
\* C1: when the fetch succeeded and no record of the feed is inside the
\* window, no POST is ever issued, no text is built, and the run can only
\* end normally with exactly the "no new items" line printed.
C1_EmptyNoDelivery ==
    (FilterStarted /\ \A i \in 1..Len(root) : ~InWindow(root[i]))
    => /\ PostsIssued = {}
       /\ text = <<>>
       /\ pc \in {"loop", "done"}
       /\ pc = "loop" => stdout = <<>>
       /\ pc = "done" => stdout = <<NoNewLine>> /\ failure = NoneVal

C1_Witness ==
    /\ pc = "done"
    /\ Len(root) >= 2
    /\ \E i \in 1..Len(root) : "leaveDate" \in DOMAIN root[i]
                               /\ root[i].leaveDate = "2024/02/29 00:00:29"
    /\ \A i \in 1..Len(root) : ~InWindow(root[i])
    /\ stdout = <<NoNewLine>>
    /\ PostsIssued = {}

\* C2: with SLACK_WEBHOOK_URL unset or empty no POST is ever issued and no
\* "sent" line printed; a run that built a text can only end in the
\* RuntimeError of post_to_slack.
C2_MissingEndpoint ==
    ~Truthy(SLACK_WEBHOOK_URL)
    => /\ PostsIssued = {}
       /\ SentLines = {}
       /\ pc # "posted"
       /\ text # <<>> => /\ pc \in {"post", "failed"}
                         /\ pc = "failed" => failure = "RuntimeError"

C2_Witness ==
    /\ SLACK_WEBHOOK_URL = ""
    /\ text # <<>>
    /\ pc = "failed"
    /\ failure = "RuntimeError"
    /\ http = <<[method |-> "GET", transport |-> "ok", status |-> 200]>>

C4_WindowFilter ==
    FilterStarted
    => /\ KeptKeys(target_mails) = FeedKeys(SelectSeq(Processed, InWindow))
       /\ \A k \in 1..Len(target_mails) :
            target_mails[k].leave_dt.s - RefEpoch
                = PublishedAt[target_mails[k].leave_date]

C4_Witness ==
    /\ ZoneInfo # NoneVal
    /\ clock.us = 0
    /\ FeedKeys(root) = << <<"2024/02/29 00:00:29", "a">>,
                           <<"2024/02/29 00:00:30", "a">> >>
    /\ idx = 3
    /\ KeptKeys(target_mails) = << <<"2024/02/29 00:00:30", "a">> >>

\* C5: parse_leave_date returns for every date string, with None exactly for
\* the strings that denote no time; the run never fails inside the loop, a
\* record without a usable publish time is never kept, and the records
\* after it are still processed and kept when inside the window.
C5_ParseNeverRaises ==
    /\ \A d \in DateStrings :
         LET r == parse_leave_date(d)
         IN  /\ r.raised = NoneVal
             /\ (r.value = NoneDt)
                  <=> (d \notin DOMAIN PublishedAt \/ (ZoneInfo # NoneVal /\ ~tzdata))
             /\ r.value # NoneDt => r.value.s - RefEpoch = PublishedAt[d]
    /\ failure \notin {"ValueError", "TypeError"}
    /\ (pc = "failed" /\ FilterStarted) => idx = Len(root) + 1
    /\ pc \in {"post", "posted", "done"} => idx = Len(root) + 1
    /\ FilterStarted
       => /\ \A k \in 1..Len(target_mails) :
               /\ target_mails[k].leave_date \in DOMAIN PublishedAt
               /\ target_mails[k].leave_dt # NoneDt
          /\ Len(target_mails) = Cardinality({i \in 1..(idx - 1) : InWindow(root[i])})

C5_Witness ==
    /\ pc = "done"
    /\ FeedKeys(root) = << <<"2024/02/30 00:00:30", "b">>,
                           <<"2024/02/29 12:00:00", "a">> >>
    /\ KeptKeys(target_mails) = << <<"2024/02/29 12:00:00", "a">> >>
    /\ stdout = <<[msg |-> "sent", count |-> 1]>>

\* C6: a built text has one block per kept record; the blocks follow the
\* kept records rearranged in ascending publish time, records with equal
\* publish times staying in their feed order.
C6_SortedBlocks ==
    text # <<>>
    => LET b == Blocks(text)
           n == Len(target_mails)
       IN  /\ Len(b) = n
           /\ Len(mails) = n
           /\ \E p \in Permutations(1..n) :
                /\ \A i \in 1..n : mails[i] = target_mails[p[i]]
                /\ \A i, j \in 1..n :
                     i < j => LET ti == PublishedAt[mails[i].leave_date]
                                  tj == PublishedAt[mails[j].leave_date]
                              IN  ti <= tj /\ (ti = tj => p[i] < p[j])
           /\ \A i \in 1..n :
                /\ b[i].title = mails[i].title
                /\ b[i].ld_str = PublishedMinute[mails[i].leave_date]

C6_Witness ==
    /\ text # <<>>
    /\ KeptKeys(target_mails) = << <<"2024/02/29 00:00:30", "a">>,
                                   <<"2024/02/29 18:30:59", "a">>,
                                   <<"2024/02/29 12:00:00", "a">> >>
    /\ [i \in 1..Len(Blocks(text)) |-> Blocks(text)[i].ld_str]
         = << <<2024, 2, 29, 0, 0>>, <<2024, 2, 29, 12, 0>>,
              <<2024, 2, 29, 18, 30>> >>

\* the one record of a one-record feed and its block in the text
TheMail == root[1]
TheBlock == Blocks(text)[1]
Rendered == text # <<>> /\ Len(root) = 1

\* the name in parentheses behind the country label, "" when there is none
ParenOf(flc) == IF flc[Len(flc)] = ")" THEN flc[Len(flc) - 1] ELSE ""

\* C7 (as amended): the name in parentheses is the table's value when the
\* country code is in the table, whatever the feed's name; otherwise the
\* feed's name when it is not empty; otherwise there are no parentheses and
\* the label is "country code: <code>" alone for a non-empty code, and
\* "country unknown" only when the code is empty as well.
C7_CountryFallback ==
    Rendered
    => LET cd    == FindText(TheMail, "country/cd")
           cname == FindText(TheMail, "country/name")
           flc   == TheBlock.first_line_country
       IN  /\ cd = "0086" => ParenOf(flc) = "PRC / China"
           /\ cd \in DOMAIN COUNTRY_CODE_MAP => ParenOf(flc) = COUNTRY_CODE_MAP[cd]
           /\ (cd \notin DOMAIN COUNTRY_CODE_MAP /\ cname # "")
              => ParenOf(flc) = cname
           /\ (cd \notin DOMAIN COUNTRY_CODE_MAP /\ cname = "")
              => flc = IF cd # "" THEN <<"*", "country code: ", cd, "*">>
                                  ELSE <<"*", "country unknown", "*">>

C7_Witness ==
    /\ Rendered
    /\ FindText(TheMail, "country/cd") = "9999"
    /\ FindText(TheMail, "country/name") = ""
    /\ TheBlock.first_line_country = <<"*", "country code: ", "9999", "*">>

\* C7 (as stated): as above, but a record whose code is not in the table and
\* whose feed name is empty is rendered as "country unknown" plus the code.
C7_AsStated ==
    Rendered
    => LET cd    == FindText(TheMail, "country/cd")
           cname == FindText(TheMail, "country/name")
           flc   == TheBlock.first_line_country
           has(x) == \E i \in 1..Len(flc) : flc[i] = x
       IN  /\ cd \in DOMAIN COUNTRY_CODE_MAP => ParenOf(flc) = COUNTRY_CODE_MAP[cd]
           /\ (cd \notin DOMAIN COUNTRY_CODE_MAP /\ cname # "")
              => ParenOf(flc) = cname
           /\ (cd \notin DOMAIN COUNTRY_CODE_MAP /\ cname = "")
              => has("country unknown") /\ (cd # "" => has(cd))

\* C8: the label behind the type code is the table's value when the code is
\* in the table, whatever the feed's names; otherwise the feed's long name
\* if not empty, else its short name if not empty, else the code itself.
C8_TypeFallback ==
    Rendered
    => LET ty    == FindText(TheMail, "infoType")
           long  == FindText(TheMail, "infoNameLong")
           short == FindText(TheMail, "infoName")
           label == IF ty \in DOMAIN INFO_TYPE_MAP THEN INFO_TYPE_MAP[ty]
                    ELSE IF long # "" THEN long
                    ELSE IF short # "" THEN short
                    ELSE ty
       IN  /\ TheBlock.type_text = Cat(<<ty, "(", label, ")">>)
           /\ ty = "R20" => TheBlock.type_text
                              = <<"R20", "(", "consular mail (urgent)", ")">>

C8_Witness ==
    /\ Rendered
    /\ FindText(TheMail, "infoType") = "Z99"
    /\ FindText(TheMail, "infoNameLong") = ""
    /\ FindText(TheMail, "infoName") = "short name"
    /\ TheBlock.type_text = <<"Z99", "(", "short name", ")">>

\* the tiers of a group flagged "Y", highest first
TiersOf(f4, f3, f2, f1) ==
    (IF f4 = "Y" THEN <<"L4">> ELSE <<>>) \o (IF f3 = "Y" THEN <<"L3">> ELSE <<>>)
    \o (IF f2 = "Y" THEN <<"L2">> ELSE <<>>) \o (IF f1 = "Y" THEN <<"L1">> ELSE <<>>)

\* a non-empty list with " / " between its elements
Slashed(l) ==
    [i \in 1..(2 * Len(l) - 1) |-> IF i % 2 = 1 THEN l[(i + 1) \div 2] ELSE " / "]

\* C9: the severity line lists, for the risk group and then the infection
\* group, the tiers flagged "Y" from 4 down to 1 joined by " / "; a group
\* without a flagged tier is left out, and there is no line at all when no
\* tier is flagged in either group.
C9_SeverityLine ==
    Rendered
    => LET m    == TheMail
           risk == TiersOf(m.riskLevel4, m.riskLevel3, m.riskLevel2, m.riskLevel1)
           inf  == TiersOf(m.infectionLevel4, m.infectionLevel3,
                           m.infectionLevel2, m.infectionLevel1)
           riskGroup == <<"risk level: ">> \o Slashed(risk)
           infGroup  == <<"infection risk level: ">> \o Slashed(inf)
       IN  TheBlock.level_text
             = CASE risk = <<>> /\ inf = <<>> -> <<>>
                 [] risk # <<>> /\ inf = <<>> -> <<"  ">> \o riskGroup \o <<"\n">>
                 [] risk = <<>> /\ inf # <<>> -> <<"  ">> \o infGroup \o <<"\n">>
                 [] OTHER -> <<"  ">> \o riskGroup \o <<" / ">> \o infGroup
                             \o <<"\n">>

C9_Witness ==
    /\ Rendered
    /\ TiersOf(TheMail.riskLevel4, TheMail.riskLevel3, TheMail.riskLevel2,
               TheMail.riskLevel1) = <<>>
    /\ TheMail.infectionLevel4 = "Y" /\ TheMail.infectionLevel3 = ""
    /\ TheMail.infectionLevel2 = "Y" /\ TheMail.infectionLevel1 = "N"
    /\ TheBlock.level_text
         = <<"  ", "infection risk level: ", "L4", " / ", "L2", "\n">>

=============================================================================
